---- MODULE Spec2Model ----
(***************************************************************************)
(* Model of src/auth/auth-client-connection.c: the per-connection handler  *)
(* of the authentication service (handshake, command dispatch, reply       *)
(* delivery with output throttling, reference-counted teardown) and the    *)
(* listener's registry of client connections.                              *)
(*                                                                         *)
(* The program is single threaded.  The event loop calls one handler at a  *)
(* time; auth_client_input is split at its loop heads (pc), every other    *)
(* handler is one step.  What the collaborators answer (a read's result,   *)
(* how much a write could send, what the request engine does) is chosen    *)
(* from small sets.                                                        *)
(***************************************************************************)
EXTENDS Integers, Sequences, FiniteSets, TLC

\* ---------------------------------------------------------------- bounds
MaxConns == 2
MaxPid == 2
MaxLines == 2

\* ------------------------------------------------------------- constants
OUTBUF_THROTTLE_SIZE == 1024 * 50
AUTH_CLIENT_PROTOCOL_MAJOR_VERSION == 1
NULL == 0

\* An unsigned int has 32 bits; it is kept as its two 16-bit halves <<high,
\* low>>, so that ++ wraps where the machine's does.
UINT_HALF == 256 * 256
uint_zero == <<0, 0>>
uint_inc(u) ==
    IF u[2] + 1 < UINT_HALF THEN <<u[1], u[2] + 1>>
    ELSE <<(u[1] + 1) % UINT_HALF, 0>>
uint_lt(u, v) == u[1] < v[1] \/ (u[1] = v[1] /\ u[2] < v[2])

Conn == 1 .. MaxConns
Pids == 0 .. MaxPid

\* A received line, already split at its first tab: the keyword and the number
\* strtoul/atoi reads from what follows it.
Line(cmd, arg) == [cmd |-> cmd, arg |-> arg]
Lines ==
    {Line("VERSION", v) : v \in {AUTH_CLIENT_PROTOCOL_MAJOR_VERSION,
                                 AUTH_CLIENT_PROTOCOL_MAJOR_VERSION + 1}}
    \cup {Line("CPID", p) : p \in Pids}
    \cup {Line("AUTH", 0), Line("CONT", 0), Line("XXXX", 0)}

\* i_stream_read's answers: -1 disconnected, -2 buffer full, or the number of
\* complete lines it added to the input buffer (0: no complete line arrived),
\* the buffer holding at most MaxLines lines.  The program never looks at a
\* buffered line before i_stream_next_line hands it over, so the buffer is
\* kept as the number of lines in it and a line's text is chosen when it is
\* taken out.
ReadResults == {-1, -2} \cup (0 .. MaxLines)

\* The output backlogs the model visits: on both sides of the low-water mark
\* and of the high-water mark, and one well above it.  The sizes of replies and
\* of flushes are chosen so that the backlog lands on one of them.
Marks ==
    {OUTBUF_THROTTLE_SIZE \div 3, OUTBUF_THROTTLE_SIZE \div 3 + 1,
     OUTBUF_THROTTLE_SIZE - 1, OUTBUF_THROTTLE_SIZE,
     OUTBUF_THROTTLE_SIZE + OUTBUF_THROTTLE_SIZE \div 3}
\* What o_stream_flush may leave queued of used bytes.
FlushResults(used) == {m \in {0} \cup Marks : m < used}

VARIABLES
    clients,              \* listener->clients: the registry, in array order
    conn,                 \* the struct auth_client_connection objects
    engine,               \* the request engine bound to each connection
    connect_uid_counter,  \* the static counter of auth_client_connection_create
    pc,                   \* where the event loop is: idle, or inside auth_client_input
    panic,                \* the failed i_assert, once one has aborted the process
    net_disconnects,      \* how often net_disconnect was called on each connection's socket
    to_clients,           \* listener->to_clients: the 5-second timer is set
    sweep,                \* what the timeout sweep of the last step did, if it was one
    last                  \* what the last step did (its i_error, or the branch it took)

vars ==
    <<clients, conn, engine, connect_uid_counter, pc, panic, net_disconnects,
      to_clients, sweep, last>>

\* The memory of a connection before i_new.
NoConn ==
    [alloc |-> "none", refcount |-> 0, connect_uid |-> uint_zero, fd |-> -1,
     input |-> 0, output |-> 0, io |-> FALSE, pid |-> 0,
     version_received |-> FALSE, request_handler |-> FALSE]

\* The memory of a connection after i_free: nothing of it is left.
Freed == [NoConn EXCEPT !.alloc = "freed"]

\* A step that is no timeout sweep: no engine was asked to check its timeouts
\* and no stale array position was read.
NoSweep == [calls |-> [c \in Conn |-> 0], stale |-> 0]

\* The part of the state the functions of the file work on; appended is the
\* number of bytes a function has handed to an output stream.
World ==
    [clients |-> clients, conn |-> conn, engine |-> engine, panic |-> panic,
     net_disconnects |-> net_disconnects, to_clients |-> to_clients,
     sweep |-> NoSweep, appended |-> 0, last |-> "none"]

Commit(s) ==
    /\ clients' = s.clients
    /\ conn' = s.conn
    /\ engine' = s.engine
    /\ panic' = s.panic
    /\ net_disconnects' = s.net_disconnects
    /\ to_clients' = s.to_clients
    /\ sweep' = s.sweep
    /\ last' = s.last

Idle == [at |-> "idle", c |-> NULL]
At(where, c) == [at |-> where, c |-> c]

\* ------------------------------------------------------------- registry

\* array_delete(&listener->clients, i, 1)
array_delete(arr, i) ==
    [k \in 1 .. Len(arr) - 1 |-> IF k < i THEN arr[k] ELSE arr[k + 1]]

RECURSIVE lookup_from(_, _, _)
lookup_from(s, pid, i) ==
    IF i > Len(s.clients) THEN NULL
    ELSE IF s.conn[s.clients[i]].pid = pid THEN s.clients[i]
    ELSE lookup_from(s, pid, i + 1)

\* A buggy lookup: the scan starts at the second entry.
auth_client_connection_lookup_skip(s, pid) == lookup_from(s, pid, 2)

auth_client_connection_lookup(s, pid) == lookup_from(s, pid, 1)

RECURSIVE index_from(_, _, _)
index_from(arr, c, i) ==
    IF i > Len(arr) THEN 0
    ELSE IF arr[i] = c THEN i
    ELSE index_from(arr, c, i + 1)

\* A buggy removal: the scan stops one entry early and misses the last one.
clients_remove_short(arr, c) ==
    LET i == index_from(SubSeq(arr, 1, Len(arr) - 1), c, 1) IN
    IF i = 0 THEN arr ELSE array_delete(arr, i)

\* The loop of auth_client_connection_destroy over listener->clients.
clients_remove(arr, c) ==
    LET i == index_from(arr, c, 1) IN
    IF i = 0 THEN arr ELSE array_delete(arr, i)

\* ------------------------------------------------------ reference count

\* A buggy release: the object is freed while one reference is still held.
auth_client_connection_unref_early(s, c) ==
    LET n == s.conn[c].refcount - 1 IN
    IF s.conn[c].alloc # "live"
    THEN [s EXCEPT !.panic = "use after free"]
    ELSE IF n > 1
    THEN [s EXCEPT !.conn[c].refcount = n]
    ELSE [s EXCEPT !.conn[c] = Freed]

\* A buggy release: the last reference is dropped without freeing.
auth_client_connection_unref_leak(s, c) ==
    LET n == s.conn[c].refcount - 1 IN
    IF s.conn[c].alloc # "live"
    THEN [s EXCEPT !.panic = "use after free"]
    ELSE [s EXCEPT !.conn[c].refcount = n]

auth_client_connection_unref(s, c) ==
    LET n == s.conn[c].refcount - 1 IN
    IF s.conn[c].alloc # "live"
    THEN [s EXCEPT !.panic = "use after free"]
    ELSE IF n > 0
    THEN [s EXCEPT !.conn[c].refcount = n]
    ELSE [s EXCEPT !.conn[c] = Freed]

\* --------------------------------------------------------------- replies

\* A buggy comparison: the high-water mark itself does not throttle.
OverHighWater_gt(used) == used > OUTBUF_THROTTLE_SIZE

OverHighWater(used) == used >= OUTBUF_THROTTLE_SIZE

\* auth_client_send of a reply of len bytes: the line handed to o_stream_send
\* is the reply and a newline, of which o_stream_send could not
\* write unsent bytes at once.  A closed stream takes nothing.
auth_client_send(s, c, len, unsent) ==
    IF s.conn[c].alloc # "live"
    THEN [s EXCEPT !.panic = "use after free"]
    ELSE IF ~(s.conn[c].refcount > 1)
    THEN [s EXCEPT !.panic = "i_assert(conn->refcount > 1)"]
    ELSE
        LET used == IF s.conn[c].fd = -1 THEN s.conn[c].output
                    ELSE s.conn[c].output + unsent
        IN  [s EXCEPT !.conn[c].output = used,
                      !.appended = IF s.conn[c].fd = -1 THEN 0 ELSE len + 1,
                      !.conn[c].io = IF OverHighWater(used) THEN FALSE ELSE @,
                      !.last = IF OverHighWater(used) /\ s.conn[c].io
                               THEN "send: read events stopped" ELSE @]

\* A reply handed to auth_callback: the NULL sentinel, or text of len bytes
\* of whose line o_stream_send leaves unsent bytes queued.  The text is taken
\* as short as it can be for that: the whole line stays queued, or, when all
\* of it is written at once, the text is empty.
NullReply == [null |-> TRUE, len |-> 0, unsent |-> 0]
TextReply(unsent) ==
    [null |-> FALSE, len |-> IF unsent = 0 THEN 0 ELSE unsent - 1,
     unsent |-> unsent]

\* A buggy callback: the NULL sentinel releases nothing.
auth_callback_null_ignored(s, c, reply) ==
    IF reply.null
    THEN s
    ELSE auth_client_send(s, c, reply.len, reply.unsent)

auth_callback(s, c, reply) ==
    IF reply.null
    THEN auth_client_connection_unref(s, c)
    ELSE auth_client_send(s, c, reply.len, reply.unsent)

\* What o_stream_send may leave unsent of a reply when used bytes are queued:
\* nothing (only when nothing was queued before it), or enough to reach a mark.
Unsent(used) ==
    {m - used : m \in {x \in Marks : x > used}}
    \cup (IF used = 0 THEN {0} ELSE {})

\* The replies the engine may hand to auth_callback for connection c.
Replies(s, c) == {TextReply(u) : u \in Unsent(s.conn[c].output)}

\* --------------------------------------------------------------- engine

\* The engine of a connection is "none" before it is created, "bound" while
\* it has been given no command, "busy" once it has been given one (it may
\* still owe replies), "released" after its connection released it while
\* requests were outstanding, and "gone" once it has called back with NULL.

\* auth_request_handler_auth_begin / _continue: the engine takes a command.
auth_request_handler_command(s, c) == [s EXCEPT !.engine[c] = "busy"]

\* auth_request_handler_unref by its connection: the engine calls back with
\* NULL at once (always when it has no request outstanding, else when sync),
\* or later, once its last request is done.
auth_request_handler_unref(s, c, sync) ==
    IF sync \/ s.engine[c] = "bound"
    THEN auth_callback([s EXCEPT !.engine[c] = "gone"], c, NullReply)
    ELSE [s EXCEPT !.engine[c] = "released"]

\* -------------------------------------------------------------- destroy

\* A buggy destroy: the test for an already closed socket is missing.
auth_client_connection_destroy_again(s, c, sync) ==
    IF s.conn[c].alloc # "live"
    THEN [s EXCEPT !.panic = "use after free"]
    ELSE
        LET s1 == [s EXCEPT !.clients = clients_remove(@, c),
                            !.conn[c].io = FALSE,
                            !.net_disconnects[c] = @ + 1,
                            !.conn[c].fd = -1]
            s2 == IF s1.conn[c].request_handler
                  THEN auth_request_handler_unref(s1, c, sync)
                  ELSE s1
        IN  auth_client_connection_unref(s2, c)

auth_client_connection_destroy(s, c, sync) ==
    IF s.conn[c].alloc # "live"
    THEN [s EXCEPT !.panic = "use after free"]
    ELSE IF s.conn[c].fd = -1
    THEN s
    ELSE
        LET s1 == [s EXCEPT !.clients = clients_remove(@, c),
                            !.conn[c].io = FALSE,
                            !.net_disconnects[c] = @ + 1,
                            !.conn[c].fd = -1]
            s2 == IF s1.conn[c].request_handler
                  THEN auth_request_handler_unref(s1, c, sync)
                  ELSE s1
        IN  auth_client_connection_unref(s2, c)

\* -------------------------------------------------------- timeout sweep

\* What array_delete(&listener->clients, k, 1) leaves in the memory buf of an
\* array of n entries: the entries after k move down, and the slot of the old
\* last entry, now past the end of the array, keeps its pointer or is zeroed.
buffer_delete(buf, n, k, zeroed) ==
    [j \in 1 .. Len(buf) |->
        IF j < k THEN buf[j]
        ELSE IF j < n THEN buf[j + 1]
        ELSE IF j = n THEN (IF zeroed THEN NULL ELSE buf[n])
        ELSE buf[j]]

\* The loop of request_timeout from position i on.  clients and count were
\* fetched once, before the loop: buf is the memory clients points to and
\* count the length the array had then.  kills[i] is the connection that the
\* timeout check made at position i leads to the destruction of, or NULL.
RECURSIVE request_timeout_from(_, _, _, _, _, _, _)
request_timeout_from(s, buf, i, count, kills, zeroed, sync) ==
    IF i > count THEN s
    ELSE
        LET p  == buf[i]
            s0 == IF i > Len(s.clients)
                  THEN [s EXCEPT !.sweep.stale = @ + 1] ELSE s
        IN  IF p = NULL
            THEN [s0 EXCEPT !.panic = "NULL dereference"]
            ELSE IF s0.conn[p].alloc # "live"
            THEN [s0 EXCEPT !.panic = "use after free"]
            ELSE IF ~s0.conn[p].request_handler
            THEN request_timeout_from(s0, buf, i + 1, count, kills, zeroed, sync)
            ELSE
                LET s1 == [s0 EXCEPT !.sweep.calls[p] = @ + 1]
                    d  == IF kills[i] # NULL /\ s1.conn[kills[i]].alloc = "live"
                          THEN kills[i] ELSE NULL
                    k  == IF d = NULL THEN 0 ELSE index_from(s1.clients, d, 1)
                    s2 == IF d = NULL THEN s1
                          ELSE auth_client_connection_destroy(s1, d, sync)
                    b2 == IF k = 0 THEN buf
                          ELSE buffer_delete(buf, Len(s1.clients), k, zeroed)
                IN  request_timeout_from(s2, b2, i + 1, count, kills, zeroed, sync)

\* No timeout check leads to the destruction of a connection.
NoKills == [i \in 1 .. MaxConns |-> NULL]

\* A buggy sweep: the scan starts at the second entry.
request_timeout_skip(s, kills, zeroed, sync) ==
    request_timeout_from(s, s.clients, 2, Len(s.clients), kills, zeroed, sync)

request_timeout(s, kills, zeroed, sync) ==
    request_timeout_from(s, s.clients, 1, Len(s.clients), kills, zeroed, sync)

\* --------------------------------------------------------------- create

\* A buggy create: a failed handshake write returns NULL and destroys nothing.
auth_client_connection_create_keep(s, c, uid, fd, sent) ==
    LET s1 == [s EXCEPT
                 !.conn[c] = [alloc |-> "live", refcount |-> 1,
                              connect_uid |-> uid, fd |-> fd,
                              input |-> 0, output |-> 0, io |-> TRUE,
                              pid |-> 0, version_received |-> FALSE,
                              request_handler |-> FALSE],
                 !.clients = Append(@, c)]
    IN  IF sent < 0
        THEN [s1 EXCEPT !.last = "create: handshake not written, NULL returned"]
        ELSE s1

\* sent is what o_stream_sendv answers for the handshake.  The value returned
\* is the new connection, or NULL after a failed write (told by last).
auth_client_connection_create(s, c, uid, fd, sent) ==
    LET s1 == [s EXCEPT
                 !.conn[c] = [alloc |-> "live", refcount |-> 1,
                              connect_uid |-> uid, fd |-> fd,
                              input |-> 0, output |-> 0, io |-> TRUE,
                              pid |-> 0, version_received |-> FALSE,
                              request_handler |-> FALSE],
                 !.clients = Append(@, c)]
    IN  IF sent < 0
        THEN [auth_client_connection_destroy(s1, c, FALSE)
                EXCEPT !.last = "create: handshake not written, NULL returned"]
        ELSE s1

\* ------------------------------------------------------------ handshake

\* A buggy test: a full buffer (-2) is taken for a disconnect too.
OldGone_any_error(oldread) == oldread < 0

\* if (i_stream_read(old->input) == -1)
OldGone(oldread) == oldread = -1

\* A buggy handshake: the engine is bound but the client pid is not stored.
auth_client_input_cpid_no_pid(s, c, pid, oldread, sync) ==
    IF pid = 0 \/ auth_client_connection_lookup(s, pid) # NULL
    THEN [s |-> s, ret |-> FALSE]
    ELSE [s |-> [s EXCEPT !.conn[c].refcount = @ + 1,
                           !.conn[c].request_handler = TRUE,
                           !.engine[c] = "bound"],
          ret |-> TRUE]

\* auth_client_input_cpid: the new state and the value returned.  oldread is
\* what i_stream_read(old->input) answers when the pid is already registered.
auth_client_input_cpid(s, c, pid, oldread, sync) ==
    IF s.conn[c].pid # 0
    THEN [s |-> [s EXCEPT !.panic = "i_assert(conn->pid == 0)"], ret |-> FALSE]
    ELSE IF pid = 0
    THEN [s |-> [s EXCEPT !.last = "BUG: Authentication client said it's PID 0"],
          ret |-> FALSE]
    ELSE
        LET old == auth_client_connection_lookup(s, pid)
            s1  == IF old = NULL THEN s
                   ELSE IF OldGone(oldread)
                   THEN [auth_client_connection_destroy(s, old, sync)
                           EXCEPT !.last = "cpid: old connection destroyed"]
                   ELSE IF oldread < 0 THEN s
                   ELSE [s EXCEPT !.conn[old].input =
                                     IF @ + oldread <= MaxLines THEN @ + oldread
                                     ELSE MaxLines]
            old2 == IF old # NULL /\ OldGone(oldread) THEN NULL ELSE old
        IN  IF old = c
            THEN [s |-> [s EXCEPT !.panic = "i_assert(old != conn)"],
                  ret |-> FALSE]
            ELSE IF old2 # NULL
            THEN [s |-> [s1 EXCEPT !.last = "BUG: Authentication client gave a PID of existing connection"],
                  ret |-> FALSE]
            ELSE [s |-> [s1 EXCEPT !.conn[c].refcount = @ + 1,
                                   !.conn[c].request_handler = TRUE,
                                   !.engine[c] = "bound",
                                   !.conn[c].pid = pid],
                  ret |-> TRUE]

\* A buggy check: only the keyword is compared, not the major version.
VersionOk_keyword_only(line) == line.cmd = "VERSION"

VersionOk(line) ==
    line.cmd = "VERSION" /\ line.arg = AUTH_CLIENT_PROTOCOL_MAJOR_VERSION

\* -------------------------------------------------------------- actions

\* A failed i_assert aborts the process: nothing runs after it.
Running == panic = "none"

Init ==
    /\ clients = <<>>
    /\ conn = [c \in Conn |-> NoConn]
    /\ engine = [c \in Conn |-> "none"]
    /\ connect_uid_counter = uint_zero
    /\ pc = Idle
    /\ panic = "none"
    /\ net_disconnects = [c \in Conn |-> 0]
    /\ to_clients = FALSE
    /\ sweep = NoSweep
    /\ last = "none"

\* The listener accepts a socket.
Create(c, sent) ==
    /\ Running
    /\ pc = Idle
    /\ conn[c].alloc = "none"
    /\ \A d \in Conn : d < c => conn[d].alloc # "none"
    /\ connect_uid_counter' = uint_inc(connect_uid_counter)
    /\ Commit(auth_client_connection_create(World, c,
                                            uint_inc(connect_uid_counter),
                                            c, sent))
    /\ UNCHANGED pc

\* auth_client_input up to its first loop: the read and its switch.
AuthClientInput(c, r, sync) ==
    /\ Running
    /\ pc = Idle
    /\ conn[c].alloc = "live"
    /\ conn[c].io
    /\ r >= 0 => conn[c].input + r <= MaxLines
    /\ IF r \in {-1, -2}
       THEN /\ Commit(auth_client_connection_destroy(
                     [World EXCEPT !.last = IF r = -2
                         THEN "BUG: Auth client sent us more than the maximum line length"
                         ELSE "input: disconnected"],
                     c, sync))
            /\ UNCHANGED pc
       ELSE /\ Commit([World EXCEPT !.conn[c].input = @ + r])
            /\ pc' = At("handshake", c)
    /\ UNCHANGED connect_uid_counter

\* One turn of while (conn->request_handler == NULL).
HandshakeStep(c, line, oldread, sync) ==
    /\ Running
    /\ pc = At("handshake", c)
    /\ UNCHANGED connect_uid_counter
    /\ IF conn[c].request_handler
       THEN \* the loop is left: conn->refcount++ before the batch
            /\ Commit([World EXCEPT !.conn[c].refcount = @ + 1])
            /\ pc' = At("batch", c)
       ELSE IF conn[c].input = 0
       THEN /\ Commit(World)
            /\ pc' = Idle
       ELSE
          LET s0 == [World EXCEPT !.conn[c].input = @ - 1]
          IN  IF ~conn[c].version_received
              THEN IF ~VersionOk(line)
                   THEN /\ Commit(auth_client_connection_destroy(
                                 [s0 EXCEPT !.last = "Authentication client not compatible with this server"],
                                 c, sync))
                        /\ pc' = Idle
                   ELSE /\ Commit([s0 EXCEPT !.conn[c].version_received = TRUE])
                        /\ UNCHANGED pc
              ELSE IF line.cmd = "CPID"
              THEN LET r == auth_client_input_cpid(s0, c, line.arg, oldread, sync)
                   IN  IF r.ret
                       THEN /\ Commit(r.s)
                            /\ UNCHANGED pc
                       ELSE /\ Commit(IF r.s.panic # "none" THEN r.s
                                      ELSE auth_client_connection_destroy(r.s, c, sync))
                            /\ pc' = Idle
              ELSE /\ Commit(s0)
                   /\ UNCHANGED pc

\* A buggy batch loop: the engine's answer is ignored.
BatchAborts_never(ret) == FALSE

\* if (!ret) { auth_client_connection_destroy(conn); break; }
BatchAborts(ret) == ~ret

\* One turn of the batch loop: auth_client_handle_line on the next line.  For
\* AUTH and CONT the engine calls back at once with each of replies and
\* answers ret.
BatchStep(c, line, replies, ret, sync) ==
    /\ Running
    /\ pc = At("batch", c)
    /\ UNCHANGED connect_uid_counter
    /\ IF conn[c].input = 0
       THEN /\ Commit(World)
            /\ pc' = At("batch_end", c)
       ELSE
          LET s0 == [World EXCEPT !.conn[c].input = @ - 1]
          IN  IF line.cmd \in {"AUTH", "CONT"}
              THEN LET sb == auth_request_handler_command(s0, c)
                       s1 == IF replies = <<>> THEN sb
                             ELSE auth_callback(sb, c, replies[1])
                   IN  IF ~BatchAborts(ret) \/ s1.panic # "none"
                       THEN /\ Commit(s1)
                            /\ UNCHANGED pc
                       ELSE /\ Commit(auth_client_connection_destroy(
                                     [s1 EXCEPT !.last = "batch: engine answered FALSE"],
                                     c, sync))
                            /\ pc' = At("batch_end", c)
              ELSE /\ Commit(s0)
                   /\ UNCHANGED pc

\* auth_client_connection_unref(conn) closing auth_client_input.
BatchEnd(c) ==
    /\ Running
    /\ pc = At("batch_end", c)
    /\ Commit(auth_client_connection_unref(World, c))
    /\ pc' = Idle
    /\ UNCHANGED connect_uid_counter

\* A buggy comparison: the low-water mark itself does not resume.
UnderLowWater_lt(used) == used < OUTBUF_THROTTLE_SIZE \div 3

UnderLowWater(used) == used <= OUTBUF_THROTTLE_SIZE \div 3

\* auth_client_output: flush < 0 is o_stream_flush's write error, else what
\* it leaves queued.
auth_client_output(s, c, flush, sync) ==
    IF flush < 0
    THEN auth_client_connection_destroy(s, c, sync)
    ELSE LET used == flush IN
         [s EXCEPT !.conn[c].output = used,
                   !.conn[c].io = IF UnderLowWater(used) /\ ~@ THEN TRUE ELSE @,
                   !.last = IF UnderLowWater(used) /\ ~s.conn[c].io
                            THEN "output: read events allowed again" ELSE @]

\* The output stream calls its flush callback: the socket became writable.
AuthClientOutput(c, flush, sync) ==
    /\ Running
    /\ pc = Idle
    /\ conn[c].alloc = "live"
    /\ conn[c].fd # -1
    /\ conn[c].output > 0
    /\ Commit(auth_client_output(World, c, flush, sync))
    /\ UNCHANGED <<pc, connect_uid_counter>>

\* The engine finishes a request and replies from the event loop.
EngineReply(c, reply) ==
    /\ Running
    /\ pc = Idle
    /\ engine[c] \in {"busy", "released"}
    /\ Commit(auth_callback(World, c, reply))
    /\ UNCHANGED <<pc, connect_uid_counter>>

\* The engine, released by its connection, is done: the NULL callback.
EngineTeardown(c) ==
    /\ Running
    /\ pc = Idle
    /\ engine[c] = "released"
    /\ Commit(auth_callback([World EXCEPT !.engine[c] = "gone",
                                           !.last = "engine: last request done"],
                             c, NullReply))
    /\ UNCHANGED <<pc, connect_uid_counter>>

\* Another module (the listener shutting down, a master connection) calls
\* auth_client_connection_destroy on a connection it still points to.
Destroy(c, sync) ==
    /\ Running
    /\ pc = Idle
    /\ conn[c].alloc = "live"
    /\ Commit(auth_client_connection_destroy(
              [World EXCEPT !.last = IF conn[c].fd = -1
                                     THEN "destroy: socket already closed"
                                     ELSE "destroy: called from outside"],
              c, sync))
    /\ UNCHANGED <<pc, connect_uid_counter>>

\* auth_client_connections_init: the listener starts its timer, once.
ConnectionsInit ==
    /\ Running
    /\ pc = Idle
    /\ ~to_clients
    /\ Commit([World EXCEPT !.to_clients = TRUE])
    /\ UNCHANGED <<pc, connect_uid_counter>>

\* auth_client_connections_deinit: the timer is removed if there is one.
ConnectionsDeinit ==
    /\ Running
    /\ pc = Idle
    /\ Commit([World EXCEPT !.to_clients = FALSE])
    /\ UNCHANGED <<pc, connect_uid_counter>>

\* The timer fires: request_timeout, the engines' timeout checks expiring
\* requests only.
RequestTimeout ==
    /\ Running
    /\ pc = Idle
    /\ to_clients
    /\ Commit(request_timeout([World EXCEPT !.last = "timeout: swept"],
                               NoKills, FALSE, FALSE))
    /\ UNCHANGED <<pc, connect_uid_counter>>

\* The timer fires and a timeout check leads to the destruction of a
\* connection while the sweep is still scanning the registry.
RequestTimeoutReentrant(kills, zeroed, sync) ==
    /\ Running
    /\ pc = Idle
    /\ to_clients
    /\ kills # NoKills
    /\ Commit(request_timeout([World EXCEPT !.last = "timeout: swept, with destruction"],
                               kills, zeroed, sync))
    /\ UNCHANGED <<pc, connect_uid_counter>>

\* Whether a released engine calls back at once is open only for an engine
\* with requests outstanding.
SyncChoices == IF \E c \in Conn : engine[c] = "busy" THEN BOOLEAN ELSE {FALSE}

\* The read of the old connection and the release of its engine happen only
\* for a CPID line.
OldReads(line) ==
    IF line.cmd = "CPID" THEN {r \in ReadResults : r <= 1} ELSE {0}
OldSyncs(line) == IF line.cmd = "CPID" THEN SyncChoices ELSE {FALSE}
\* The engine's answer to a release is open once the batch has given it a
\* command.
BatchSyncs(line, ret) ==
    IF ret THEN {FALSE} ELSE BOOLEAN
\* The engine is called only for an AUTH or a CONT line: it may call back at
\* once with one reply, and answers TRUE or FALSE.
EngineReplies(c, line) ==
    IF line.cmd \in {"AUTH", "CONT"}
    THEN {<<>>} \cup {<<r>> : r \in Replies(World, c)}
    ELSE {<<>>}
EngineRets(line) == IF line.cmd \in {"AUTH", "CONT"} THEN BOOLEAN ELSE {TRUE}

Next ==
    \/ \E c \in Conn, sent \in {-1, 0} : Create(c, sent)
    \/ \E c \in Conn, r \in ReadResults, sync \in SyncChoices :
         AuthClientInput(c, r, sync)
    \/ \E c \in Conn, line \in Lines :
         \E oldread \in OldReads(line), sync \in OldSyncs(line) :
            HandshakeStep(c, line, oldread, sync)
    \/ \E c \in Conn, line \in Lines :
         \E replies \in EngineReplies(c, line), ret \in EngineRets(line) :
            \E sync \in BatchSyncs(line, ret) :
               BatchStep(c, line, replies, ret, sync)
    \/ \E c \in Conn : BatchEnd(c)
    \/ \E c \in Conn : \E sync \in SyncChoices,
                            flush \in {-1} \cup FlushResults(conn[c].output) :
         AuthClientOutput(c, flush, sync)
    \/ \E c \in Conn : \E reply \in Replies(World, c) : EngineReply(c, reply)
    \/ \E c \in Conn : EngineTeardown(c)
    \/ \E c \in Conn, sync \in SyncChoices : Destroy(c, sync)
    \/ ConnectionsInit
    \/ ConnectionsDeinit
    \/ RequestTimeout

Spec == Init /\ [][Next]_vars

\* The process after 2^32 - 2 connections have come and gone: the counter of
\* auth_client_connection_create is two short of its largest value.
InitLongRun ==
    /\ clients = <<>>
    /\ conn = [c \in Conn |-> NoConn]
    /\ engine = [c \in Conn |-> "none"]
    /\ connect_uid_counter = <<UINT_HALF - 1, UINT_HALF - 2>>
    /\ pc = Idle
    /\ panic = "none"
    /\ net_disconnects = [c \in Conn |-> 0]
    /\ to_clients = TRUE
    /\ sweep = NoSweep
    /\ last = "none"

SpecLongRun == InitLongRun /\ [][Next]_vars

\* The program with request engines whose timeout check may lead to the
\* destruction of a connection.
NextReentrant ==
    \/ Next
    \/ \E kills \in [1 .. MaxConns -> Conn \cup {NULL}], zeroed \in BOOLEAN,
          sync \in SyncChoices :
         RequestTimeoutReentrant(kills, zeroed, sync)

SpecReentrant == Init /\ [][NextReentrant]_vars

\* ---------------------------------------------------------------- claims

InArray(arr, c) == \E i \in 1 .. Len(arr) : arr[i] = c
Registered(c) == InArray(clients, c)

\* Connection c is in the handshake loop, its version line accepted, with a
\* line to take: the next line is handled as a client-pid line if it is one.
AwaitingCpid(c) ==
    /\ pc = At("handshake", c)
    /\ ~conn[c].request_handler
    /\ conn[c].version_received
    /\ conn[c].input > 0

\* C1: when a connection awaiting its client pid sends CPID p (p nonzero),
\* another registered connection has client_pid p and the read of that old
\* connection's input does not report a disconnect, the new connection is
\* destroyed with no engine bound (it is freed at once: no reference was added
\* for an engine), and the old connection stays registered, keeps its engine
\* and its references, and is what lookup-by-pid(p) returns.
C1_DuplicateCpidOldReadable ==
    [][\A c \in Conn, p \in Pids \ {0}, oldread \in ReadResults \ {-1},
          sync \in BOOLEAN :
          LET old == auth_client_connection_lookup(World, p) IN
          (/\ AwaitingCpid(c)
           /\ old # NULL
           /\ HandshakeStep(c, Line("CPID", p), oldread, sync))
          => /\ ~InArray(clients', c)
             /\ conn'[c].alloc = "freed"
             /\ conn'[c].pid = 0
             /\ ~conn'[c].request_handler
             /\ engine'[c] = "none"
             /\ InArray(clients', old)
             /\ conn'[old].fd # -1
             /\ conn'[old].request_handler
             /\ conn'[old].refcount = conn[old].refcount
             /\ engine'[old] = engine[old]
             /\ engine[old] \in {"bound", "busy"}
             /\ auth_client_connection_lookup(World, p)' = old
             /\ pc' = Idle]_vars

\* C1's case has happened: the duplicate was refused while the old connection
\* is registered with its engine.
C1_Witness ==
    /\ last = "BUG: Authentication client gave a PID of existing connection"
    /\ \E old \in Conn : Registered(old) /\ conn[old].pid # 0
                         /\ engine[old] \in {"bound", "busy"}

\* C2: when a connection awaiting its client pid sends CPID p (p nonzero),
\* another registered connection has client_pid p and the read of that old
\* connection's input reports a disconnect, the old connection is destroyed and
\* removed from the registry, and the new connection binds an engine, stores
\* client_pid p, stays registered and is what lookup-by-pid(p) returns.
C2_DuplicateCpidOldDisconnected ==
    [][\A c \in Conn, p \in Pids \ {0}, sync \in BOOLEAN :
          LET old == auth_client_connection_lookup(World, p) IN
          (/\ AwaitingCpid(c)
           /\ old # NULL
           /\ HandshakeStep(c, Line("CPID", p), -1, sync))
          => /\ ~InArray(clients', old)
             /\ conn'[old].fd = -1
             /\ ~conn'[old].io
             /\ engine'[old] \in {"released", "gone"}
             /\ InArray(clients', c)
             /\ conn'[c].alloc = "live"
             /\ conn'[c].request_handler
             /\ engine'[c] = "bound"
             /\ conn'[c].pid = p
             /\ conn'[c].refcount = conn[c].refcount + 1
             /\ auth_client_connection_lookup(World, p)' = c]_vars

\* C2's case has happened: the old connection was destroyed in the CPID step
\* and the new one is registered under a pid with its engine.
C2_Witness ==
    /\ last = "cpid: old connection destroyed"
    /\ \E c \in Conn : /\ pc = At("handshake", c)
                       /\ Registered(c)
                       /\ conn[c].pid # 0
                       /\ engine[c] = "bound"
                       /\ \E old \in Conn \ {c} : ~Registered(old)
                                                  /\ conn[old].fd = -1

\* C3: no two connections of the registry have the same nonzero client_pid.
C3_PidUnique ==
    \A i, j \in 1 .. Len(clients) :
        (i # j /\ conn[clients[i]].pid # 0)
        => conn[clients[i]].pid # conn[clients[j]].pid

\* Two connections are registered, each under a nonzero pid of its own.
C3_Witness ==
    /\ Len(clients) = 2
    /\ \A i \in 1 .. Len(clients) : conn[clients[i]].pid # 0
    /\ conn[clients[1]].pid # conn[clients[2]].pid

InBatch(c) == pc \in {At("batch", c), At("batch_end", c)}
EngineHolds(c) == engine[c] \in {"bound", "busy", "released"}

\* C4: a connection is never freed (its reference count never reaches zero)
\* while it holds a read subscription, while its engine has not delivered the
\* NULL callback, or while a line-processing batch on it is running; and the
\* count never goes below zero (no release of an already freed connection).
C4_NoPrematureFree ==
    /\ \A c \in Conn :
          (conn[c].io \/ EngineHolds(c) \/ InBatch(c))
          => (conn[c].alloc = "live" /\ conn[c].refcount >= 1)
    /\ \A c \in Conn : conn[c].refcount >= 0
    /\ panic # "use after free"

\* A destroyed connection kept alive by its batch and by its engine only.
C4_Witness ==
    \E c \in Conn : /\ pc = At("batch_end", c)
                    /\ conn[c].fd = -1
                    /\ engine[c] = "released"
                    /\ conn[c].refcount = 2

\* C5: after destroy has run on a connection with a bound engine, a later
\* engine callback (reply text or NULL) violates no assertion and touches no
\* freed connection, and one with reply text changes no connection and not
\* the registry.
C5_CallbackAfterDestroySafe ==
    [][\A c \in Conn :
          (conn[c].fd = -1 /\ engine[c] = "released")
          => /\ EngineTeardown(c) => panic' = "none"
             /\ \A reply \in Replies(World, c) :
                   EngineReply(c, reply)
                   => (panic' = "none" /\ UNCHANGED <<conn, clients>>)]_vars

\* C6: a destroyed connection is eventually freed, provided every batch on it
\* returns and its engine, once released, delivers the NULL callback; and a
\* connection destroyed with no engine bound and outside any batch is freed
\* by the destroy call itself.
C6_NoLeak ==
    /\ \A c \in Conn :
          (/\ [](engine[c] = "released" => <>(engine[c] = "gone"))
           /\ [](InBatch(c) => <>(~InBatch(c))))
          => []((conn[c].alloc = "live" /\ conn[c].fd = -1)
                => <>(conn[c].alloc = "freed"))
    /\ [][\A c \in Conn :
             (/\ conn[c].alloc = "live" /\ conn[c].fd # -1
              /\ conn'[c].fd = -1
              /\ engine[c] = "none" /\ ~InBatch(c))
             => conn'[c].alloc = "freed"]_vars

\* A destroyed connection was freed by its engine's late NULL callback.
C6_Witness ==
    /\ last = "engine: last request done"
    /\ \E c \in Conn : engine[c] = "gone" /\ conn[c].alloc = "freed"

C8_LowWaterResume ==
    [][\A c \in Conn, flush \in {0} \cup Marks, sync \in BOOLEAN :
          AuthClientOutput(c, flush, sync)
          => /\ (flush <= 17066 /\ ~conn[c].io) => conn'[c].io
             /\ (flush > 17066 \/ conn[c].io) => conn'[c].io = conn[c].io
             /\ conn'[c].output = flush]_vars

\* A flush has just come down to the low-water mark exactly and resumed reads.
C8_Witness ==
    /\ last = "output: read events allowed again"
    /\ \E c \in Conn : conn[c].output = 17066 /\ conn[c].io

Throttled(c) == conn[c].alloc = "live" /\ conn[c].fd # -1 /\ ~conn[c].io

\* C9 as claimed: while the read subscription is cancelled for backlog, no
\* AUTH or CONT of the connection is dispatched to the engine.
C9_NoDispatchWhileThrottled ==
    [][\A c \in Conn, line \in {Line("AUTH", 0), Line("CONT", 0)} :
          \A replies \in EngineReplies(c, line), ret \in BOOLEAN,
             sync \in BOOLEAN :
             (conn[c].input > 0 /\ BatchStep(c, line, replies, ret, sync))
             => ~Throttled(c)]_vars

\* C9 as amended: auth_client_input starts on a connection only while it has
\* its read subscription and its backlog is below the high-water mark, so
\* while throttled no new read happens and no new batch starts; the commands
\* dispatched while throttled are lines the running batch's read had already
\* buffered.
C9_NoNewBatchWhileThrottled ==
    [][\A c \in Conn :
          /\ (pc = Idle /\ pc' # Idle /\ pc'.c = c)
             => (conn[c].io /\ conn[c].output < 51200)
          /\ \A line \in {Line("AUTH", 0), Line("CONT", 0)} :
             \A replies \in EngineReplies(c, line), ret \in BOOLEAN,
                sync \in BOOLEAN :
                (conn[c].input > 0 /\ BatchStep(c, line, replies, ret, sync)
                 /\ Throttled(c))
                => (pc = At("batch", c) /\ conn[c].output >= 51200)]_vars

\* A batch was throttled by a reply and still has a buffered line to take.
C9_Witness ==
    \E c \in Conn : /\ pc = At("batch", c)
                    /\ Throttled(c)
                    /\ conn[c].output >= 51200
                    /\ conn[c].input > 0

\* C10: when the first line of a connection is not VERSION with the required
\* major version, handling it destroys the connection, the handler returns
\* without taking a further buffered line, and no engine is created for the
\* connection then or later.
C10_VersionGate ==
    [][\A c \in Conn :
          /\ \A line \in Lines \ {Line("VERSION", 1)}, sync \in BOOLEAN :
                (/\ pc = At("handshake", c)
                 /\ ~conn[c].request_handler
                 /\ ~conn[c].version_received
                 /\ conn[c].input > 0
                 /\ HandshakeStep(c, line, 0, sync))
                => /\ ~InArray(clients', c)
                   /\ conn'[c].fd = -1
                   /\ conn'[c].alloc = "freed"
                   /\ engine'[c] = "none"
                   /\ pc' = Idle
          /\ conn[c].alloc = "freed"
             => (conn'[c] = conn[c] /\ engine'[c] = engine[c] /\ pc'.c # c)]_vars

\* A first line was refused and its connection is gone with no engine.
C10_Witness ==
    /\ last = "Authentication client not compatible with this server"
    /\ \E c \in Conn : conn[c].alloc = "freed" /\ engine[c] = "none"
                       /\ ~Registered(c)

\* The handshake of a connection is complete: its version line was accepted
\* and a nonzero client pid is stored.
HandshakeComplete(c) == conn[c].version_received /\ conn[c].pid # 0

\* C11: in every state a connection has an engine bound (request_handler is
\* not NULL) exactly if its version line was accepted and a nonzero client pid
\* is stored; the assertion pid == 0 of the CPID handling never fails; and a
\* stored client pid is never changed while the connection exists.
C11_HandlerIffHandshake ==
    /\ [](\A c \in Conn : conn[c].request_handler <=> HandshakeComplete(c))
    /\ [](panic # "i_assert(conn->pid == 0)")
    /\ [][\A c \in Conn :
             (conn[c].pid # 0 /\ conn'[c].alloc = "live")
             => conn'[c].pid = conn[c].pid]_vars

\* One connection has completed its handshake and holds an engine while
\* another one, its version line accepted, has none yet.
C11_Witness ==
    \E c, d \in Conn :
        /\ conn[c].request_handler /\ HandshakeComplete(c)
        /\ engine[c] = "bound"
        /\ conn[d].alloc = "live" /\ conn[d].version_received
        /\ conn[d].pid = 0 /\ ~conn[d].request_handler

\* C12: destroy called on a connection whose socket is already marked closed
\* and which is not yet freed changes nothing: registry, reference count,
\* streams, read subscription and engine stay as they are, the engine is not
\* released again, no reference is dropped and the socket is not disconnected
\* again.  This holds of the function in every state, and of every call made.
C12_DestroyIdempotent ==
    /\ [](\A c \in Conn, sync \in BOOLEAN :
             (conn[c].alloc = "live" /\ conn[c].fd = -1)
             => auth_client_connection_destroy(World, c, sync) = World)
    /\ [][\A c \in Conn, sync \in BOOLEAN :
             (conn[c].alloc = "live" /\ conn[c].fd = -1 /\ Destroy(c, sync))
             => UNCHANGED <<clients, conn, engine, net_disconnects, panic>>]_vars

\* Destroy was called on a closed connection that its engine keeps alive.
C12_Witness ==
    /\ last = "destroy: socket already closed"
    /\ \E c \in Conn : /\ conn[c].alloc = "live" /\ conn[c].fd = -1
                       /\ conn[c].refcount = 1 /\ engine[c] = "released"
                       /\ net_disconnects[c] = 1

C14_SweepToleratesRemoval ==
    [][\A kills \in [1 .. MaxConns -> Conn \cup {NULL}], zeroed \in BOOLEAN,
          sync \in BOOLEAN :
          (RequestTimeoutReentrant(kills, zeroed, sync) /\ clients' # clients)
          => /\ panic' = "none"
             /\ sweep'.stale = 0
             /\ \A c \in Conn :
                   (InArray(clients', c) /\ conn'[c].request_handler)
                   => sweep'.calls[c] = 1]_vars

\* C15: when the engine answers FALSE for an AUTH or CONT line, the connection
\* is destroyed in the same step and the batch loop is left; a command is only
\* ever dispatched for a connection whose socket is open, so the lines still
\* buffered are never dispatched; and the step that follows releases the
\* batch's reference, once, and returns to the event loop.
C15_EngineFatalAbortsBatch ==
    [][\A c \in Conn :
          /\ (pc = At("batch", c) /\ conn[c].input > 0)
             => /\ conn[c].fd # -1
                /\ \A line \in {Line("AUTH", 0), Line("CONT", 0)} :
                   \A replies \in EngineReplies(c, line), sync \in BOOLEAN :
                      BatchStep(c, line, replies, FALSE, sync)
                      => /\ panic' = "none"
                         /\ conn'[c].alloc = "live"
                         /\ conn'[c].fd = -1
                         /\ ~InArray(clients', c)
                         /\ conn'[c].input = conn[c].input - 1
                         /\ pc' = At("batch_end", c)
          /\ pc = At("batch_end", c)
             => /\ pc' = Idle
                /\ \/ conn'[c] = [conn[c] EXCEPT !.refcount = @ - 1]
                   \/ conn[c].refcount = 1 /\ conn'[c] = Freed
                /\ UNCHANGED <<clients, engine>>
          /\ (conn[c].alloc = "live" /\ conn[c].fd = -1 /\ conn'[c].alloc = "live")
             => conn'[c].input = conn[c].input]_vars

\* The engine has just answered FALSE: the connection is closed, the batch
\* loop is left and a buffered line is left undispatched.
C15_Witness ==
    /\ last = "batch: engine answered FALSE"
    /\ \E c \in Conn : /\ pc = At("batch_end", c)
                       /\ conn[c].fd = -1
                       /\ conn[c].input > 0

\* C16: when the write of the initial handshake fails, create returns NULL,
\* the registry is what it was before the call, the new connection's read
\* subscription is removed, its socket is disconnected (once) and its streams
\* closed, and the connection is freed before create returns; no engine was
\* bound and the connect_uid counter has advanced.
C16_FailedCreate ==
    [][\A c \in Conn :
          Create(c, -1)
          => /\ last' = "create: handshake not written, NULL returned"
             /\ clients' = clients
             /\ conn'[c] = Freed
             /\ ~conn'[c].io /\ conn'[c].fd = -1
             /\ net_disconnects'[c] = 1
             /\ engine'[c] = "none"
             /\ \A d \in Conn \ {c} : conn'[d] = conn[d]
             /\ panic' = "none"]_vars

\* A create has just failed while another connection is registered.
C16_Witness ==
    /\ last = "create: handshake not written, NULL returned"
    /\ Len(clients) = 1
    /\ \E c \in Conn : conn[c].alloc = "freed" /\ net_disconnects[c] = 1
                       /\ ~Registered(c)

\* C17: the connect_uid values assigned by successive creates, failed ones
\* included, are strictly increasing, and no two connections have the same
\* connect_uid.
C17_ConnectUidUnique ==
    /\ [][\A c \in Conn, sent \in {-1, 0} :
             Create(c, sent)
             => /\ uint_lt(connect_uid_counter, connect_uid_counter')
                /\ sent = 0 => conn'[c].connect_uid = connect_uid_counter']_vars
    /\ [](\A c, d \in Conn :
             (c # d /\ conn[c].alloc = "live" /\ conn[d].alloc = "live")
             => conn[c].connect_uid # conn[d].connect_uid)

\* C18: an engine callback with the NULL sentinel takes one from the
\* connection's reference count (freeing the connection if that was the last
\* reference) and does nothing else: nothing is handed to the output stream,
\* and the read subscription, the other connections and the registry stay as
\* they are.  A callback with reply text hands exactly the text and one
\* newline to the output stream, leaves the reference count as it is and
\* fails no assertion.
C18_NullSentinelFrame ==
    /\ [](\A c \in Conn :
             conn[c].alloc = "live"
             => LET r == auth_callback(World, c, NullReply) IN
                /\ r.clients = clients
                /\ r.appended = 0
                /\ r.panic = panic
                /\ \A d \in Conn \ {c} : r.conn[d] = conn[d]
                /\ \/ r.conn[c] = [conn[c] EXCEPT !.refcount = @ - 1]
                   \/ conn[c].refcount = 1 /\ r.conn[c] = Freed)
    /\ [][\A c \in Conn :
             engine[c] \in {"busy", "released"}
             => \A reply \in Replies(World, c) :
                   EngineReply(c, reply)
                   => /\ panic' = "none"
                      /\ auth_callback(World, c, reply).appended = reply.len + 1
                      /\ conn'[c].refcount = conn[c].refcount
                      /\ clients' = clients]_vars

\* The number of line-processing batches running on connection c.
Batches(c) == IF InBatch(c) THEN 1 ELSE 0

\* C19: in every state, the reference count of every connection that is not
\* freed is 1 if it has not been destroyed, plus 1 if an engine has been bound
\* whose NULL callback has not been delivered, plus the number of batches
\* running on it.
C19_RefcountAccounting ==
    \A c \in Conn :
        conn[c].alloc = "live"
        => conn[c].refcount =
              (IF conn[c].fd # -1 THEN 1 ELSE 0)
              + (IF conn[c].request_handler /\ engine[c] # "gone" THEN 1 ELSE 0)
              + Batches(c)

\* All three holders at once, and next to it a connection held by its engine
\* only.
C19_Witness ==
    \E c, d \in Conn :
        /\ conn[c].alloc = "live" /\ conn[c].fd # -1 /\ engine[c] = "busy"
        /\ pc = At("batch", c) /\ conn[c].refcount = 3
        /\ conn[d].alloc = "live" /\ conn[d].fd = -1
        /\ engine[d] = "released" /\ conn[d].refcount = 1

\* C20: once a connection's socket is marked closed, the connection stays
\* closed until it is freed, and in every state it is then not in the
\* registry, is not what lookup-by-pid returns for any pid, and has no read
\* subscription; and net_disconnect is called on a connection's socket exactly
\* once in the connection's life: never before it is closed, once when it is
\* closed, never again.
C20_ClosedIsTerminal ==
    /\ [](\A c \in Conn :
             (conn[c].alloc = "freed" \/ (conn[c].alloc = "live" /\ conn[c].fd = -1))
             => /\ ~Registered(c)
                /\ \A p \in Pids : auth_client_connection_lookup(World, p) # c
                /\ ~conn[c].io
                /\ net_disconnects[c] = 1)
    /\ [](\A c \in Conn :
             (conn[c].alloc = "none" \/ (conn[c].alloc = "live" /\ conn[c].fd # -1))
             => net_disconnects[c] = 0)
    /\ [][\A c \in Conn :
             /\ (conn[c].alloc = "live" /\ conn[c].fd = -1)
                => (conn'[c].alloc = "freed"
                    \/ (conn'[c].alloc = "live" /\ conn'[c].fd = -1))
             /\ conn[c].alloc = "freed" => conn'[c].alloc = "freed"]_vars

\* A closed connection, kept by its engine, whose client pid has since been
\* taken over by a registered connection that lookup-by-pid now returns.
C20_Witness ==
    \E c, d \in Conn :
        /\ conn[c].alloc = "live" /\ conn[c].fd = -1 /\ conn[c].pid # 0
        /\ net_disconnects[c] = 1
        /\ Registered(d) /\ conn[d].pid = conn[c].pid
        /\ auth_client_connection_lookup(World, conn[c].pid) = d
        /\ conn[d].output > 0

====
